---- MODULE Spec2Model ----
(***************************************************************************)
(* write2dyna (cgx_2.23/src/write2dyna.c): serialises a mesh held in the   *)
(* arrays node[] and elem[] into an ls-dyna deck, "*NODE" section first,   *)
(* "*ELEMENT_SOLID" section second.                                        *)
(*                                                                         *)
(* The output file is a sequence of lines.  A line records the printf      *)
(* format that produced it and the converted arguments: "ints" are the %8d *)
(* fields, "floats" the %16.3f fields.  A coordinate is stored in units of *)
(* 1e-6; a %16.3f field is the sign and the number of thousandths printed. *)
(* A field is kept as the value printed; its width in characters (8 or 16, *)
(* wider when the value needs it) is not part of the model.                *)
(* The parameter lcase is never used by the function and is not modelled.  *)
(***************************************************************************)
EXTENDS Integers, Sequences, FiniteSets, TLC

\* ---------------------------------------------------------------- bounds
MaxN == 2          \* largest node count anz->n
MaxE == 2          \* largest element count anz->e
MaxNodeNr == 3     \* largest node number; node[] has indices 0..MaxNodeNr

\* ---------------------------------------------------------------- inputs
TypeCodes == {1, 2, 3, 4, 6}
Slots == 0..19
Fracs == {100, 400}
NodVariants == {0, 1}
Stems == {"job"}

Min(a, b) == IF a < b THEN a ELSE b

Abs(v) == IF v < 0 THEN -v ELSE v

\* Coordinates (1e-6 units) stored at index k of node[]; the two tables
\* (frac = 100, 400) differ by less than half a thousandth.
CoordOf(k, frac) ==
  [nx |-> 1000 * k + frac, ny |-> -(2000 * k + 200), nz |-> 700 - frac]

\* node[i].nr for i < n: distinct node numbers in any order, with gaps.
NodeNumberings(n) ==
  {s \in [0..(n - 1) -> 1..MaxNodeNr] :
     \A a, b \in 0..(n - 1) : a # b => s[a] # s[b]}

NodeArray(n, nrs, frac) ==
  [k \in 0..MaxNodeNr |->
     [nr |-> IF k < n THEN nrs[k] ELSE 0,
      nx |-> CoordOf(k, frac).nx,
      ny |-> CoordOf(k, frac).ny,
      nz |-> CoordOf(k, frac).nz]]

\* Element k: number (descending, with gaps), group and node slots.
\* Slot s of element 0 holds s (the sequence 0..19); variant 1 puts another
\* node number in slot 12.
ElemNr(k) == 40 - 9 * k
ElemGroup(k) == 5 + (k % 2)
NodOf(k, v) ==
  [s \in Slots |->
     IF s = 12 /\ v = 1 THEN 500 + k
     ELSE IF k = 0 THEN s ELSE 100 * k + 19 - s]

ElemArray(e, types, v) ==
  [k \in 0..(e - 1) |->
     [nr |-> ElemNr(k), group |-> ElemGroup(k), type |-> types[k],
      nod |-> NodOf(k, v)]]

NodeInputs ==
  {[n |-> 0, node |-> NodeArray(0, <<>>, 100)]} \cup
  UNION {{[n |-> n, node |-> NodeArray(n, nrs, frac)] :
            nrs \in NodeNumberings(n), frac \in Fracs} :
         n \in 1..Min(MaxN, MaxNodeNr)}

ElemInputs ==
  {[e |-> 0, elem |-> ElemArray(0, <<>>, 0)]} \cup
  UNION {{[e |-> e, elem |-> ElemArray(e, types, v)] :
            types \in [0..(e - 1) -> TypeCodes], v \in NodVariants} :
         e \in 1..MaxE}

\* The meshes write2dyna is called with.
InputMeshes ==
  {[anz |-> [n |-> ni.n, e |-> ei.e], node |-> ni.node, elem |-> ei.elem] :
     ni \in NodeInputs, ei \in ElemInputs}

\* ------------------------------------------------------------- formatting
NodeHeader == "*NODE\n"
ElemHeader == "*ELEMENT_SOLID\n"
NodeFmt == "%8d%16.3f%16.3f%16.3f\n"
Fmt10 == "%8d%8d%8d%8d%8d%8d%8d%8d%8d%8d\n"
Fmt6 == "%8d%8d%8d%8d%8d%8d\n"
Fmt2 == "%8d%8d\n"

Line(fmt, ints, floats) == [fmt |-> fmt, ints |-> ints, floats |-> floats]

\* %16.3f: sign and thousandths, rounded to nearest (a negative value that
\* rounds to zero prints "-0.000").  The inputs hold no exact tie.
Fmt3(v) == [neg |-> v < 0, mil |-> (Abs(v) + 500) \div 1000]

\* NodeLine reading the coordinates at the position instead of the number
NodeLine_ByPosition(nd, k) ==
  Line(NodeFmt, <<nd[k].nr>>, <<Fmt3(nd[k].nx), Fmt3(nd[k].ny), Fmt3(nd[k].nz)>>)

\* line 29
NodeLine(nd, k) ==
  Line(NodeFmt, <<nd[k].nr>>,
       <<Fmt3(nd[nd[k].nr].nx), Fmt3(nd[nd[k].nr].ny), Fmt3(nd[nd[k].nr].nz)>>)

\* lines 40-42
Type1Lines(el) ==
  <<Line(Fmt10, <<el.nr, el.group, el.nod[0], el.nod[1], el.nod[2], el.nod[3],
                  el.nod[4], el.nod[5], el.nod[6], el.nod[7]>>, <<>>)>>

\* Type3Lines counting the slots from 1
Type3Lines_FromSlot1(el) ==
  <<Line(Fmt6, <<el.nr, el.group, el.nod[1], el.nod[2], el.nod[3], el.nod[4]>>,
         <<>>)>>

\* lines 46-47
Type3Lines(el) ==
  <<Line(Fmt6, <<el.nr, el.group, el.nod[0], el.nod[1], el.nod[2], el.nod[3]>>,
         <<>>)>>

\* Type4Lines with the third line in slot order
Type4Lines_Unpermuted(el) ==
  <<Line(Fmt2, <<el.nr, el.group>>, <<>>),
    Line(Fmt10, <<el.nod[0], el.nod[1], el.nod[2], el.nod[3], el.nod[4],
                  el.nod[5], el.nod[6], el.nod[7], el.nod[8], el.nod[9]>>, <<>>),
    Line(Fmt10, <<el.nod[10], el.nod[11], el.nod[12], el.nod[13], el.nod[14],
                  el.nod[15], el.nod[16], el.nod[17], el.nod[18], el.nod[19]>>,
         <<>>)>>

\* lines 51-60
Type4Lines(el) ==
  <<Line(Fmt2, <<el.nr, el.group>>, <<>>),
    Line(Fmt10, <<el.nod[0], el.nod[1], el.nod[2], el.nod[3], el.nod[4],
                  el.nod[5], el.nod[6], el.nod[7], el.nod[8], el.nod[9]>>, <<>>),
    Line(Fmt10, <<el.nod[10], el.nod[11], el.nod[16], el.nod[17], el.nod[18],
                  el.nod[19], el.nod[12], el.nod[13], el.nod[14], el.nod[15]>>,
         <<>>)>>

\* Type6Lines with the node line in slot order
Type6Lines_Unpermuted(el) ==
  <<Line(Fmt2, <<el.nr, el.group>>, <<>>),
    Line(Fmt10, <<el.nod[0], el.nod[1], el.nod[2], el.nod[3], el.nod[4],
                  el.nod[5], el.nod[6], el.nod[7], el.nod[8], el.nod[9]>>, <<>>)>>

\* lines 64-69
Type6Lines(el) ==
  <<Line(Fmt2, <<el.nr, el.group>>, <<>>),
    Line(Fmt10, <<el.nod[0], el.nod[1], el.nod[2], el.nod[3], el.nod[4],
                  el.nod[5], el.nod[6], el.nod[8], el.nod[9], el.nod[7]>>, <<>>)>>

\* lines 38-74: what the if/else-if chain writes to the file for one element
ElemLines(el) ==
  IF el.type = 1 THEN Type1Lines(el)
  ELSE IF el.type = 3 THEN Type3Lines(el)
  ELSE IF el.type = 4 THEN Type4Lines(el)
  ELSE IF el.type = 6 THEN Type6Lines(el)
  ELSE <<>>

Msg(fmt, ints, strs) == [fmt |-> fmt, ints |-> ints, strs |-> strs]

\* lines 71-74: what the chain prints on stdout for one element
ElemDiag(el) ==
  IF el.type \in {1, 3, 4, 6} THEN <<>>
  ELSE <<Msg(" elem not a known type (%d)\n", <<el.type>>, <<>>)>>

\* HasNodes with the test off by one
HasNodes_NonNegative(a) == a.n >= 0

\* line 24 and line 33: the tests that guard the two sections
HasNodes(a) == a.n > 0
HasElems(a) == a.e > 0

\* lines 24-31: the node section as a whole
NodeSection(a, nd) ==
  IF HasNodes(a)
  THEN <<Line(NodeHeader, <<>>, <<>>)>> \o [k \in 1..a.n |-> NodeLine(nd, k - 1)]
  ELSE <<>>

\* lines 36-75: the records of elements k..e-1
RECURSIVE ElemRecords(_, _, _)
ElemRecords(el, k, e) ==
  IF k >= e THEN <<>> ELSE ElemLines(el[k]) \o ElemRecords(el, k + 1, e)

\* lines 33-76: the element section as a whole
ElemSection(a, el) ==
  IF HasElems(a)
  THEN <<Line(ElemHeader, <<>>, <<>>)>> \o ElemRecords(el, 0, a.e)
  ELSE <<>>

\* lines 24-76: the file a successful call leaves behind
FileContents(a, nd, el) == NodeSection(a, nd) \o ElemSection(a, el)

\* line 14: sprintf(datout,"%s.dyn",datout) copies a buffer onto itself,
\* which the C standard leaves undefined; builds either append the suffix
\* or overwrite the stem before reading it.
SprintfOutcomes(stem) == {stem \o ".dyn", ".dyn"}

\* lines 9-80: the status a call returns; it depends on fopen alone
Write2dynaStatus(a, nd, el, opened) == IF opened THEN 1 ELSE -1

\* lines 18 and 79
ReturnValue(h) == IF h = "NULL" THEN -1 ELSE 1

\* ------------------------------------------------------------------ state
VARIABLES
  anz,      \* Summen: n nodes, e elements
  node,     \* Nodes[]: nr by position, nx ny nz by node number
  elem,     \* Elements[]
  datout,   \* the caller's file-name buffer
  handle1,  \* "unset", "NULL", "open" or "closed"
  i,        \* loop counter
  pc,       \* line about to be executed, "start" or "done"
  out,      \* lines written to handle1
  stdout,   \* messages printed
  ret       \* returned status; 0 while the call is running

vars == <<anz, node, elem, datout, handle1, i, pc, out, stdout, ret>>

mesh == <<anz, node, elem>>

Init ==
  /\ \E m \in InputMeshes : anz = m.anz /\ node = m.node /\ elem = m.elem
  /\ datout \in Stems
  /\ handle1 = "unset"
  /\ i = 0
  /\ pc = "start"
  /\ out = <<>>
  /\ stdout = <<>>
  /\ ret = 0

\* lines 14-19, fopen succeeds
OpenOk ==
  /\ pc = "start"
  /\ \E name \in SprintfOutcomes(datout) :
       /\ datout' = name
       /\ stdout' = stdout \o <<Msg("\n%s opened\n", <<>>, <<name>>),
                                Msg("\n write ls-dyna data  \n", <<>>, <<>>)>>
  /\ handle1' = "open"
  /\ out' = <<>>
  /\ pc' = "L24"
  /\ UNCHANGED <<mesh, i, ret>>

\* lines 14-18, fopen returns NULL
OpenFail ==
  /\ pc = "start"
  /\ \E name \in SprintfOutcomes(datout) :
       /\ datout' = name
       /\ stdout' = stdout \o
            <<Msg("\nThe output file \"%s\" could not be opened.\n\n", <<>>, <<name>>)>>
  /\ handle1' = "NULL"
  /\ ret' = ReturnValue("NULL")
  /\ pc' = "done"
  /\ UNCHANGED <<mesh, i, out>>

\* lines 24-27
BeginNodes ==
  /\ pc = "L24"
  /\ IF HasNodes(anz)
     THEN /\ out' = out \o <<Line(NodeHeader, <<>>, <<>>)>>
          /\ i' = 0
          /\ pc' = "L27"
     ELSE /\ pc' = "L33"
          /\ UNCHANGED <<out, i>>
  /\ UNCHANGED <<mesh, datout, handle1, stdout, ret>>

\* lines 27-30
WriteNode ==
  /\ pc = "L27"
  /\ IF i < anz.n
     THEN /\ out' = out \o <<NodeLine(node, i)>>
          /\ i' = i + 1
          /\ pc' = "L27"
     ELSE /\ pc' = "L33"
          /\ UNCHANGED <<out, i>>
  /\ UNCHANGED <<mesh, datout, handle1, stdout, ret>>

\* lines 33-36
BeginElems ==
  /\ pc = "L33"
  /\ IF HasElems(anz)
     THEN /\ out' = out \o <<Line(ElemHeader, <<>>, <<>>)>>
          /\ i' = 0
          /\ pc' = "L36"
     ELSE /\ pc' = "L78"
          /\ UNCHANGED <<out, i>>
  /\ UNCHANGED <<mesh, datout, handle1, stdout, ret>>

\* WriteElem leaving the loop at the first element of unknown type
WriteElem_AbortOnUnknown ==
  /\ pc = "L36"
  /\ IF i < anz.e
     THEN /\ out' = out \o ElemLines(elem[i])
          /\ stdout' = stdout \o ElemDiag(elem[i])
          /\ i' = i + 1
          /\ pc' = IF ElemDiag(elem[i]) = <<>> THEN "L36" ELSE "L78"
     ELSE /\ pc' = "L78"
          /\ UNCHANGED <<out, stdout, i>>
  /\ UNCHANGED <<mesh, datout, handle1, ret>>

\* lines 36-75
WriteElem ==
  /\ pc = "L36"
  /\ IF i < anz.e
     THEN /\ out' = out \o ElemLines(elem[i])
          /\ stdout' = stdout \o ElemDiag(elem[i])
          /\ i' = i + 1
          /\ pc' = "L36"
     ELSE /\ pc' = "L78"
          /\ UNCHANGED <<out, stdout, i>>
  /\ UNCHANGED <<mesh, datout, handle1, ret>>

\* CloseAndReturn without the fclose
CloseAndReturn_NoClose ==
  /\ pc = "L78"
  /\ ret' = ReturnValue(handle1)
  /\ pc' = "done"
  /\ UNCHANGED <<mesh, datout, handle1, i, out, stdout>>

\* lines 78-79
CloseAndReturn ==
  /\ pc = "L78"
  /\ handle1' = "closed"
  /\ ret' = ReturnValue(handle1)
  /\ pc' = "done"
  /\ UNCHANGED <<mesh, datout, i, out, stdout>>

Next ==
  \/ OpenOk
  \/ OpenFail
  \/ BeginNodes
  \/ WriteNode
  \/ BeginElems
  \/ WriteElem
  \/ CloseAndReturn

Spec == Init /\ [][Next]_vars

TypeOK ==
  /\ pc \in {"start", "L24", "L27", "L33", "L36", "L78", "done"}
  /\ handle1 \in {"unset", "NULL", "open", "closed"}
  /\ ret \in {-1, 0, 1}
  /\ i \in 0..(MaxN + MaxE + 1)

\* ------------------------------------------------------------ vocabulary
Supported == {1, 3, 4, 6}

Succeeded == pc = "done" /\ handle1 # "NULL"

ElemIdx == 0..(anz.e - 1)
NodeIdx == 0..(anz.n - 1)

\* elem[] without entry j
RemoveElem(el, j, e) == [k \in 0..(e - 2) |-> IF k < j THEN el[k] ELSE el[k + 1]]

\* positions of the lines of out printed with one of the formats fs
LinesWith(fs) == {k \in 1..Len(out) : out[k].fmt \in fs}

\* the lines a step appended to out
Appended == SubSeq(out', Len(out) + 1, Len(out'))

\* the step of the element loop that handles an element of type t
ElemStep(t) == pc = "L36" /\ i < anz.e /\ elem[i].type = t

\* the element loop has just handled an element of type t
ElemStepDone(t) == pc = "L36" /\ i > 0 /\ elem[i - 1].type = t

SlotValues(el, slots) == [k \in 1..Len(slots) |-> el.nod[slots[k]]]

\* a %16.3f field f shows the stored coordinate v to the nearest thousandth
Shows(f, v) == f.neg = (v < 0) /\ Abs(1000 * f.mil - Abs(v)) <= 500

\* ----------------------------------------------------------------- claims

\* C1: an element whose type code is not in {1,3,4,6} produces no output
\* line and does not abort the call; the file is the one written for the
\* mesh without that element (when another element remains), so every
\* supported element's record is still there, in element order.
C1_UnknownTypeSkipped ==
  Succeeded =>
    \A j \in ElemIdx :
      elem[j].type \notin Supported =>
        /\ ret = 1
        /\ handle1 = "closed"
        /\ IF anz.e > 1
           THEN out = FileContents([anz EXCEPT !.e = anz.e - 1], node,
                                   RemoveElem(elem, j, anz.e))
           ELSE out = NodeSection(anz, node) \o <<Line(ElemHeader, <<>>, <<>>)>>

C1_Witness ==
  /\ Succeeded
  /\ \E j, k \in ElemIdx :
       j < k /\ elem[j].type \notin Supported /\ elem[k].type \in Supported

\* C2: after a successful call "*NODE" is in the file exactly once when
\* anz->n > 0 and not at all when it is 0, "*ELEMENT_SOLID" exactly once
\* when anz->e > 0 and not at all when it is 0, and the header and records
\* of the node section all precede the header and records of the element
\* section.
C2_SectionHeaders ==
  Succeeded =>
    /\ Cardinality(LinesWith({NodeHeader})) = (IF anz.n > 0 THEN 1 ELSE 0)
    /\ Cardinality(LinesWith({ElemHeader})) = (IF anz.e > 0 THEN 1 ELSE 0)
    /\ \A a \in LinesWith({NodeHeader}) :
         \A b \in LinesWith({NodeFmt}) : a < b
    /\ \A a \in LinesWith({ElemHeader}) :
         \A b \in LinesWith({Fmt10, Fmt6, Fmt2}) : a < b
    /\ \A a \in LinesWith({NodeHeader, NodeFmt}) :
         \A b \in LinesWith({ElemHeader, Fmt10, Fmt6, Fmt2}) : a < b

C2_Witness ==
  /\ Succeeded
  /\ anz.n > 0
  /\ anz.e > 0
  /\ LinesWith({Fmt10, Fmt6, Fmt2}) # {}

\* C3: the step for an element of type 4 appends exactly three lines: the
\* header (nr, group), the slots 0..9 in order, and the slots
\* 10,11,16,17,18,19,12,13,14,15 in that order; the two node lines hold
\* every one of the 20 slots exactly once.
C3_Type4Record ==
  [][ElemStep(4) =>
       /\ SubSeq(out', 1, Len(out)) = out
       /\ Len(Appended) = 3
       /\ Appended[1] = Line(Fmt2, <<elem[i].nr, elem[i].group>>, <<>>)
       /\ Appended[2] =
            Line(Fmt10, SlotValues(elem[i], <<0, 1, 2, 3, 4, 5, 6, 7, 8, 9>>), <<>>)
       /\ Appended[3] =
            Line(Fmt10,
                 SlotValues(elem[i], <<10, 11, 16, 17, 18, 19, 12, 13, 14, 15>>),
                 <<>>)
       /\ \A s \in Slots :
            Cardinality({k \in 1..10 : Appended[2].ints[k] = elem[i].nod[s]}) +
            Cardinality({k \in 1..10 : Appended[3].ints[k] = elem[i].nod[s]}) = 1
     ]_vars

C3_Witness == ElemStepDone(4) /\ Len(out) >= 4

\* C4: the step for an element of type 6 appends exactly two lines: the
\* header (nr, group) and one line with the slots 0,1,2,3,4,5,6,8,9,7 in
\* that order; no value of the slots 10..14 is written.
C4_Type6Record ==
  [][ElemStep(6) =>
       /\ SubSeq(out', 1, Len(out)) = out
       /\ Len(Appended) = 2
       /\ Appended[1] = Line(Fmt2, <<elem[i].nr, elem[i].group>>, <<>>)
       /\ Appended[2] =
            Line(Fmt10, SlotValues(elem[i], <<0, 1, 2, 3, 4, 5, 6, 8, 9, 7>>), <<>>)
       /\ \A s \in 10..14 : \A l \in 1..2 : \A k \in 1..Len(Appended[l].ints) :
            Appended[l].ints[k] # elem[i].nod[s]
     ]_vars

C4_Witness == ElemStepDone(6) /\ Len(out) >= 3

\* C10: the step for an element of type 1 appends exactly one line of 10
\* fields: nr, group and the slots 0..7 in order; the step for an element of
\* type 3 appends exactly one line of 6 fields: nr, group and the slots
\* 0..3 in order; every field is an integer (node numbers, no coordinates).
C10_Type1Type3Record ==
  [][/\ ElemStep(1) =>
          /\ SubSeq(out', 1, Len(out)) = out
          /\ Len(Appended) = 1
          /\ Appended[1].fmt = Fmt10
          /\ Appended[1].floats = <<>>
          /\ Appended[1].ints =
               <<elem[i].nr, elem[i].group>> \o
               SlotValues(elem[i], <<0, 1, 2, 3, 4, 5, 6, 7>>)
          /\ Len(Appended[1].ints) = 10
     /\ ElemStep(3) =>
          /\ SubSeq(out', 1, Len(out)) = out
          /\ Len(Appended) = 1
          /\ Appended[1].fmt = Fmt6
          /\ Appended[1].floats = <<>>
          /\ Appended[1].ints =
               <<elem[i].nr, elem[i].group>> \o SlotValues(elem[i], <<0, 1, 2, 3>>)
          /\ Len(Appended[1].ints) = 6
     ]_vars

C10_Witness ==
  /\ pc = "L36"
  /\ i = 2
  /\ elem[0].type = 1
  /\ elem[1].type = 3
  /\ Len(out) >= 3

\* C9: when anz->n > 0 the file holds exactly anz->n node records, and the
\* record at position k holds node[k].nr followed by the three coordinates
\* stored under that node number (node[node[k].nr]), whatever the order of
\* the numbers and the gaps between them.
C9_NodeRecords ==
  (Succeeded /\ anz.n > 0) =>
    /\ Cardinality(LinesWith({NodeFmt})) = anz.n
    /\ \A k \in NodeIdx :
         LET l == out[k + 2]
             id == node[k].nr
         IN /\ l.fmt = NodeFmt
            /\ l.ints = <<id>>
            /\ Len(l.floats) = 3
            /\ Shows(l.floats[1], node[id].nx)
            /\ Shows(l.floats[2], node[id].ny)
            /\ Shows(l.floats[3], node[id].nz)

C9_Witness ==
  /\ Succeeded
  /\ anz.n >= 2
  /\ node[0].nr > node[1].nr + 1
  /\ Len(out) >= 3

\* C6: no exit leaves the stream open.  When fopen fails the call returns a
\* negative status and nothing is written; otherwise the sections are
\* written, the stream is closed and the status is positive; the status is
\* negative exactly when fopen failed.
C6_StreamClosedOnExit ==
  /\ pc = "done" => handle1 \in {"NULL", "closed"}
  /\ handle1 = "NULL" => pc = "done" /\ ret = -1 /\ out = <<>>
  /\ Succeeded =>
       /\ handle1 = "closed"
       /\ ret = 1
       /\ out = FileContents(anz, node, elem)
  /\ pc = "done" => (ret < 0 <=> handle1 = "NULL")
  /\ pc # "done" => ret = 0

C6_Witness == pc = "done" /\ handle1 = "NULL" /\ ret < 0 /\ anz.n > 0 /\ anz.e > 0

\* --------------------------------------------- claims the code contradicts

\* node slots per topology as the specification counts them
Arity(t) == IF t = 1 THEN 8 ELSE IF t = 3 THEN 4 ELSE IF t = 4 THEN 20 ELSE 15

\* node slots the code writes for a supported type
WrittenSlots(t) ==
  IF t = 1 THEN 0..7 ELSE IF t = 3 THEN 0..3 ELSE IF t = 4 THEN 0..19 ELSE 0..9

OnlySupported(a, el) == \A k \in 0..(a.e - 1) : el[k].type \in Supported

\* same node set, same element numbers, groups, topologies and node order
SameMesh(a1, nd1, el1, a2, nd2, el2) ==
  /\ a1 = a2
  /\ \A k \in 0..(a1.n - 1) :
       /\ nd1[k].nr = nd2[k].nr
       /\ nd1[nd1[k].nr].nx = nd2[nd2[k].nr].nx
       /\ nd1[nd1[k].nr].ny = nd2[nd2[k].nr].ny
       /\ nd1[nd1[k].nr].nz = nd2[nd2[k].nr].nz
  /\ \A k \in 0..(a1.e - 1) :
       /\ el1[k].nr = el2[k].nr
       /\ el1[k].group = el2[k].group
       /\ el1[k].type = el2[k].type
       /\ \A s \in 0..(Arity(el1[k].type) - 1) : el1[k].nod[s] = el2[k].nod[s]

\* C5: the file determines the mesh: no other mesh of supported topologies
\* that differs in its nodes or in an element's number, group, topology or
\* node slots produces the file this call has written.
C5_OutputDeterminesMesh ==
  (Succeeded /\ OnlySupported(anz, elem)) =>
    \A m \in InputMeshes :
      (OnlySupported(m.anz, m.elem) /\ FileContents(m.anz, m.node, m.elem) = out)
        => SameMesh(m.anz, m.node, m.elem, anz, node, elem)

NodeNumbers == {node[k].nr : k \in NodeIdx}

Dangling(el) == \E s \in WrittenSlots(el.type) : el.nod[s] \notin NodeNumbers

\* the lines ls occur in out, consecutively
Written(ls) ==
  \E p \in 0..(Len(out) - Len(ls)) : SubSeq(out, p + 1, p + Len(ls)) = ls

Reported(el) ==
  \E k \in 1..Len(stdout) : \E a \in 1..Len(stdout[k].ints) :
    stdout[k].ints[a] = el.nr

\* C7: an element of a supported type that references a node number absent
\* from the node table is reported and its record is not written as if the
\* reference were valid.
C7_DanglingNodeRejected ==
  Succeeded =>
    \A j \in ElemIdx :
      (elem[j].type \in Supported /\ Dangling(elem[j])) =>
        /\ ~Written(ElemLines(elem[j]))
        /\ Reported(elem[j])

Skipped(a, el) == Cardinality({k \in 0..(a.e - 1) : el[k].type \notin Supported})

\* C8: the returned result reports the counts: two successful calls that
\* return the same result have skipped the same number of elements, written
\* the same number of elements and written the same number of nodes.
C8_ResultReportsCounts ==
  Succeeded =>
    \A m \in InputMeshes :
      Write2dynaStatus(m.anz, m.node, m.elem, TRUE) = ret =>
        /\ Skipped(m.anz, m.elem) = Skipped(anz, elem)
        /\ m.anz.e - Skipped(m.anz, m.elem) = anz.e - Skipped(anz, elem)
        /\ m.anz.n = anz.n

====
